---- MODULE Spec2Model ----
(***************************************************************************)
(* Model of the deferred-cleanup registry of firmware/main/closer.h and of *)
(* the staged initializer (app_main / app_logic) of firmware/main/main.c.  *)
(*                                                                         *)
(* Two specifications share the registry's operations:                     *)
(*   SpecReg  a client that calls closer_create, closer_add, closer_close  *)
(*            and closer_destroy in any order, with any arguments and any  *)
(*            allocation outcome;                                          *)
(*   Spec     app_main of main.c: create, the steps of app_logic, and the  *)
(*            close + destroy of the failure path.                         *)
(***************************************************************************)
EXTENDS Integers, Sequences, FiniteSets, TLC

\* ---------------------------------------------------------------- bounds
\* Number of closer_item_t blocks the heap can hold at one time.
HeapSize == 8
\* Number of registry calls the client of SpecReg makes.
MaxOps == 5
\* Number of IP events dispatched to handler_on_sta_got_ip.
MaxEvents == 1
\* Number of HTTP requests the server task handles.
MaxRequests == 1

\* ------------------------------------------------------------- constants
\* The null pointer (for handles and list links).
NULL == 0
\* The null function pointer.
NULL_FN == "NULL"
\* Address of the one struct closer_t the allocator hands out.
CloserAddr == 100
\* Address of the caller's handle variable (&s_closer), the out argument
\* of closer_create.
s_closer_addr == 300

ItemAddrs == 1..HeapSize

\* Cleanup actions the client of SpecReg registers (opaque callbacks).
TestFns == {"A", "B", "D"}

VARIABLES
    pc,          \* position of the calling task
    stack,       \* return positions of the calls in progress
    h,           \* argument h of the registry call in progress
    item,        \* local variable item of closer_close
    s_closer,    \* the handle the caller holds (main.c: static s_closer)
    closer,      \* the struct closer_t block: [alloc, top]
    items,       \* the closer_item_t blocks: address -> [alloc, fn, next]
    fault,       \* TRUE once the code touched freed or unallocated memory
    trace,       \* observable events so far, oldest first
    nops,        \* number of client calls made (SpecReg)
    step,        \* index of the next call of the staged initializer (Spec)
    acquired,    \* resources currently held by the staged initializer
    s_sta_netif, \* main.c: static s_sta_netif (NULL or the interface)
    xTaskToNotify,      \* main.c: static xTaskToNotify
    handler_registered, \* handler_on_sta_got_ip is registered for
                        \* IP_EVENT_STA_GOT_IP
    notified,    \* a task notification is pending for the app_main task
    err,         \* local variable err of wifi_connect
    evpc,        \* position of the event task
    ev_netif,    \* event->esp_netif of the event being handled
    to_notify,   \* local variable to_notify of handler_on_sta_got_ip
    nevents,     \* number of IP events dispatched
    uris,        \* URIs with a registered handler on the HTTP server
    led,         \* level of LED_PIN
    nreq         \* number of HTTP requests handled

wifivars == <<xTaskToNotify, handler_registered, notified, err>>

evvars == <<evpc, ev_netif, to_notify, nevents>>

httpvars == <<uris, led, nreq>>

taskvars == <<wifivars, evvars, httpvars>>

vars == <<pc, stack, h, item, s_closer, closer, items, fault, trace, nops,
          step, acquired, s_sta_netif, taskvars>>

appvars == <<step, acquired, s_sta_netif>>

\* ---------------------------------------------------------------- events
Ev(e, f, a, r) == [ev |-> e, fn |-> f, addr |-> a, ret |-> r]

Log(e) == trace' = Append(trace, e)

\* ------------------------------------------------------------------ heap
FreeItem == [alloc |-> FALSE, fn |-> NULL_FN, next |-> NULL]

\* Addresses malloc can return: the lowest free block, or none.
FreeAddrs == {a \in ItemAddrs : ~items[a].alloc}

MallocAddr == IF FreeAddrs = {} THEN NULL
              ELSE CHOOSE a \in FreeAddrs : \A b \in FreeAddrs : a <= b

\* The pending sequence of the registry, most recent first, read by
\* following the next links from top (n bounds the walk).
RECURSIVE Chain(_, _)
Chain(a, n) == IF a = NULL \/ n = 0 THEN <<>>
               ELSE <<items[a].fn>> \o Chain(items[a].next, n - 1)

Pending == IF closer.alloc THEN Chain(closer.top, HeapSize) ELSE <<>>

AllocatedItems == {a \in ItemAddrs : items[a].alloc}

\* ------------------------------------------------------- call and return
Call(target, arg, retpc) ==
    /\ pc' = target
    /\ h' = arg
    /\ stack' = <<retpc>> \o stack

Return ==
    /\ pc' = Head(stack)
    /\ stack' = Tail(stack)

\* ------------------------------------------------------------ closer_add
\* closer_add(hh, fn) with the allocator succeeding (mallocOk) or not.
\* Defines items', closer', fault' and the returned code.
\* closer_add without the test of fn: a NULL action is accepted.
closer_add_ret_no_fn_test(hh, fn, mallocOk) ==
    IF hh = NULL THEN "ESP_ERR_INVALID_ARG"
    ELSE IF ~mallocOk \/ MallocAddr = NULL THEN "ESP_ERR_NO_MEM"
    ELSE "ESP_OK"

closer_add_ret(hh, fn, mallocOk) ==
    IF hh = NULL \/ fn = NULL_FN THEN "ESP_ERR_INVALID_ARG"
    ELSE IF ~mallocOk \/ MallocAddr = NULL THEN "ESP_ERR_NO_MEM"
    ELSE "ESP_OK"

\* closer_add with item->next = NULL in place of item->next = h->top: the
\* new node does not link to the nodes registered before it.
closer_add_drops_next(hh, fn, mallocOk) ==
    IF closer_add_ret(hh, fn, mallocOk) = "ESP_OK"
    THEN /\ items' = [items EXCEPT ![MallocAddr] =
                         [alloc |-> TRUE, fn |-> fn, next |-> NULL]]
         /\ closer' = [closer EXCEPT !.top = MallocAddr]
         /\ fault' = (fault \/ ~closer.alloc)
    ELSE UNCHANGED <<items, closer, fault>>

\* closer_add with h->top = item assigned before the result of malloc is
\* tested: a failed allocation stores NULL in h->top.
closer_add_links_before_test(hh, fn, mallocOk) ==
    CASE closer_add_ret(hh, fn, mallocOk) = "ESP_OK" ->
            /\ items' = [items EXCEPT ![MallocAddr] =
                            [alloc |-> TRUE, fn |-> fn, next |-> closer.top]]
            /\ closer' = [closer EXCEPT !.top = MallocAddr]
            /\ fault' = (fault \/ ~closer.alloc)
      [] closer_add_ret(hh, fn, mallocOk) = "ESP_ERR_NO_MEM" ->
            /\ closer' = [closer EXCEPT !.top = NULL]
            /\ UNCHANGED <<items, fault>>
      [] OTHER -> UNCHANGED <<items, closer, fault>>

\* closer_add that links the new node behind the last one: the sequence
\* becomes first registered, first invoked.
closer_add_appends(hh, fn, mallocOk) ==
    IF closer_add_ret(hh, fn, mallocOk) = "ESP_OK"
    THEN /\ items' =
               IF closer.top = NULL
               THEN [items EXCEPT ![MallocAddr] =
                        [alloc |-> TRUE, fn |-> fn, next |-> NULL]]
               ELSE [items EXCEPT
                        ![MallocAddr] = [alloc |-> TRUE, fn |-> fn, next |-> NULL],
                        ![CHOOSE a \in AllocatedItems : items[a].next = NULL].next
                            = MallocAddr]
         /\ closer' = [closer EXCEPT
                          !.top = IF closer.top = NULL THEN MallocAddr ELSE @]
         /\ fault' = (fault \/ ~closer.alloc)
    ELSE UNCHANGED <<items, closer, fault>>

closer_add(hh, fn, mallocOk) ==
    IF closer_add_ret(hh, fn, mallocOk) = "ESP_OK"
    THEN /\ items' = [items EXCEPT ![MallocAddr] =
                         [alloc |-> TRUE, fn |-> fn, next |-> closer.top]]
         /\ closer' = [closer EXCEPT !.top = MallocAddr]
         /\ fault' = (fault \/ ~closer.alloc)
    ELSE UNCHANGED <<items, closer, fault>>

\* The events a call of closer_add leaves: the block malloc returned, if
\* it returned one, then the call with its arguments and returned code.
AddEvents(hh, fn, mallocOk) ==
    (IF closer_add_ret(hh, fn, mallocOk) = "ESP_OK"
     THEN <<Ev("malloc", NULL_FN, MallocAddr, "void")>> ELSE <<>>)
    \o <<Ev("add", fn, hh, closer_add_ret(hh, fn, mallocOk))>>

\* --------------------------------------------------------- closer_create
\* closer_create(out) with out NULL or &s_closer and calloc succeeding
\* (callocOk) or not: if (!out) return; c = calloc(...); if (!c) return;
\* *out = c.  calloc zeroes the block, so top is NULL.
closer_create_ret(out, callocOk) ==
    IF out = NULL THEN "ESP_ERR_INVALID_ARG"
    ELSE IF ~callocOk THEN "ESP_ERR_NO_MEM"
    ELSE "ESP_OK"

\* closer_create with malloc in place of calloc: top is not zeroed and
\* holds whatever the block held (here the address of a list node).
closer_create_malloc(out, callocOk) ==
    IF closer_create_ret(out, callocOk) = "ESP_OK"
    THEN /\ closer' = [alloc |-> TRUE, top |-> 1]
         /\ s_closer' = CloserAddr
    ELSE UNCHANGED <<closer, s_closer>>

closer_create(out, callocOk) ==
    IF closer_create_ret(out, callocOk) = "ESP_OK"
    THEN /\ closer' = [alloc |-> TRUE, top |-> NULL]
         /\ s_closer' = CloserAddr
    ELSE UNCHANGED <<closer, s_closer>>

\* The event a call of closer_create leaves: the out argument (by name),
\* the registry created and the code returned.
CreateEvent(out, callocOk) ==
    Ev("create", IF out = NULL THEN NULL_FN ELSE "s_closer",
       IF closer_create_ret(out, callocOk) = "ESP_OK" THEN CloserAddr ELSE NULL,
       closer_create_ret(out, callocOk))

\* ------------------------------------------------- the cleanup callbacks
\* What item->fn() does to the program's state.  The callbacks of the
\* client of SpecReg are opaque; those of main.c release their resource
\* (the framework call inside each is taken to succeed).  The two that
\* read s_sta_netif return at once when it is NULL.
ResourceOf(fn) ==
    CASE fn = "esp_netif_deinit" -> "netif"
      [] fn = "esp_event_loop_delete_default" -> "event_loop"
      [] fn = "esp_wifi_deinit" -> "wifi"
      [] fn = "sta_netif_destroy" -> "sta_netif"
      [] fn = "delete_default_wifi_driver_and_handlers" -> "sta_handlers"
      [] fn = "esp_wifi_stop" -> "wifi_started"
      [] fn = "mdns_free" -> "mdns"
      [] fn = "stop_webserver" -> "webserver"
      [] OTHER -> "none"

Invoke(fn) ==
    CASE fn = "sta_netif_destroy" ->
            IF s_sta_netif = NULL
            THEN UNCHANGED <<acquired, s_sta_netif>>
            ELSE /\ acquired' = acquired \ {"sta_netif"}
                 /\ s_sta_netif' = NULL
      [] fn = "delete_default_wifi_driver_and_handlers" ->
            /\ acquired' = IF s_sta_netif = NULL THEN acquired
                           ELSE acquired \ {"sta_handlers"}
            /\ UNCHANGED s_sta_netif
      [] OTHER ->
            /\ acquired' = acquired \ {ResourceOf(fn)}
            /\ UNCHANGED s_sta_netif

\* ---------------------------------------------------------- closer_close
\* if (!h) return;  item = h->top;
closer_close_entry ==
    /\ pc = "closer_close"
    /\ IF h = NULL
       THEN /\ Return
            /\ UNCHANGED <<item, fault>>
       ELSE /\ pc' = "close_loop"
            /\ item' = closer.top
            /\ fault' = (fault \/ ~closer.alloc)
            /\ UNCHANGED stack
    /\ Log(Ev("close", NULL_FN, h, "void"))
    /\ UNCHANGED <<h, s_closer, closer, items, nops, appvars>>
    /\ UNCHANGED taskvars

\* closer_close whose loop leaves after the first node: the head's action is
\* invoked and its node freed, the rest of the list is not visited.
closer_close_iter_breaks ==
    /\ pc = "close_loop"
    /\ item # NULL
    /\ IF items[item].fn # NULL_FN
       THEN /\ Invoke(items[item].fn)
            /\ trace' = trace \o <<Ev("call", items[item].fn, item, "void"),
                                   Ev("free", NULL_FN, item, "void")>>
       ELSE /\ UNCHANGED <<acquired, s_sta_netif>>
            /\ trace' = Append(trace, Ev("free", NULL_FN, item, "void"))
    /\ fault' = (fault \/ ~items[item].alloc)
    /\ item' = NULL
    /\ items' = [items EXCEPT ![item].alloc = FALSE]
    /\ UNCHANGED <<pc, stack, h, s_closer, closer, nops, step>>
    /\ UNCHANGED taskvars

\* closer_close that frees the node at hand first and then invokes its
\* action and reads its next link out of the freed block.
closer_close_iter_frees_first ==
    /\ pc = "close_loop"
    /\ item # NULL
    /\ IF items[item].fn # NULL_FN
       THEN /\ Invoke(items[item].fn)
            /\ trace' = trace \o <<Ev("free", NULL_FN, item, "void"),
                                   Ev("call", items[item].fn, item, "void")>>
       ELSE /\ UNCHANGED <<acquired, s_sta_netif>>
            /\ trace' = Append(trace, Ev("free", NULL_FN, item, "void"))
    /\ fault' = TRUE
    /\ item' = items[item].next
    /\ items' = [items EXCEPT ![item].alloc = FALSE]
    /\ UNCHANGED <<pc, stack, h, s_closer, closer, nops, step>>
    /\ UNCHANGED taskvars

\* One iteration of while (item): call item->fn if set, advance, free.
closer_close_iter ==
    /\ pc = "close_loop"
    /\ item # NULL
    /\ IF items[item].fn # NULL_FN
       THEN /\ Invoke(items[item].fn)
            /\ trace' = trace \o <<Ev("call", items[item].fn, item, "void"),
                                   Ev("free", NULL_FN, item, "void")>>
       ELSE /\ UNCHANGED <<acquired, s_sta_netif>>
            /\ trace' = Append(trace, Ev("free", NULL_FN, item, "void"))
    /\ fault' = (fault \/ ~items[item].alloc)
    /\ item' = items[item].next
    /\ items' = [items EXCEPT ![item].alloc = FALSE]
    /\ UNCHANGED <<pc, stack, h, s_closer, closer, nops, step>>
    /\ UNCHANGED taskvars

\* closer_close without h->top = NULL at the end: top keeps pointing to
\* the freed nodes.
closer_close_exit_keeps_top ==
    /\ pc = "close_loop"
    /\ item = NULL
    /\ Return
    /\ Log(Ev("closed", NULL_FN, h, "void"))
    /\ UNCHANGED <<h, item, s_closer, closer, items, fault, nops, appvars>>
    /\ UNCHANGED taskvars

\* Loop exit: h->top = NULL; return.
closer_close_exit ==
    /\ pc = "close_loop"
    /\ item = NULL
    /\ closer' = [closer EXCEPT !.top = NULL]
    /\ fault' = (fault \/ ~closer.alloc)
    /\ Return
    /\ Log(Ev("closed", NULL_FN, h, "void"))
    /\ UNCHANGED <<h, item, s_closer, items, nops, appvars>>
    /\ UNCHANGED taskvars

\* -------------------------------------------------------- closer_destroy
\* closer_destroy that frees the registry without closing it first.
closer_destroy_entry_no_close ==
    /\ pc = "closer_destroy"
    /\ IF h = NULL
       THEN Return
       ELSE pc' = "destroy_free" /\ UNCHANGED stack
    /\ Log(Ev("destroy", NULL_FN, h, "void"))
    /\ UNCHANGED <<h, item, s_closer, closer, items, fault, nops, appvars>>
    /\ UNCHANGED taskvars

\* closer_destroy without the test of h, walking the list itself: with a
\* NULL handle it reads h->top through the null pointer.
closer_destroy_entry_no_null_test ==
    /\ pc = "closer_destroy"
    /\ pc' = "close_loop"
    /\ stack' = <<"destroy_free">> \o stack
    /\ item' = closer.top
    /\ fault' = (fault \/ h = NULL \/ ~closer.alloc)
    /\ Log(Ev("destroy", NULL_FN, h, "void"))
    /\ UNCHANGED <<h, s_closer, closer, items, nops, appvars>>
    /\ UNCHANGED taskvars

\* if (!h) { warn; return; }  closer_close(h);
closer_destroy_entry ==
    /\ pc = "closer_destroy"
    /\ IF h = NULL
       THEN /\ Return
            /\ UNCHANGED h
       ELSE Call("closer_close", h, "destroy_free")
    /\ Log(Ev("destroy", NULL_FN, h, "void"))
    /\ UNCHANGED <<item, s_closer, closer, items, fault, nops, appvars>>
    /\ UNCHANGED taskvars

\* free(h); return.  free(NULL) does nothing.
closer_destroy_free ==
    /\ pc = "destroy_free"
    /\ IF h = NULL
       THEN UNCHANGED <<closer, fault, trace>>
       ELSE /\ closer' = [closer EXCEPT !.alloc = FALSE]
            /\ fault' = (fault \/ ~closer.alloc)
            /\ Log(Ev("free", NULL_FN, h, "void"))
    /\ Return
    /\ UNCHANGED <<h, item, s_closer, items, nops, appvars>>
    /\ UNCHANGED taskvars

\* ------------------------------------------------- the client of SpecReg
\* The handles a client may pass: NULL, or its handle while it is valid
\* (after closer_destroy the handle must not be reused).
Handles == IF closer.alloc THEN {NULL, s_closer} ELSE {NULL}

\* The client holds one handle: it creates a registry when it has none.
ClientCreate ==
    /\ pc = "idle"
    /\ nops < MaxOps
    /\ ~closer.alloc
    /\ \E out \in {NULL, s_closer_addr}, callocOk \in BOOLEAN :
          \* the allocator is only reached with a valid out
          /\ out = NULL => callocOk
          /\ closer_create(out, callocOk)
          /\ Log(CreateEvent(out, callocOk))
    /\ nops' = nops + 1
    /\ UNCHANGED <<pc, stack, h, item, items, fault, appvars>>
    /\ UNCHANGED taskvars

ClientAdd ==
    /\ pc = "idle"
    /\ nops < MaxOps
    /\ \E hh \in Handles, fn \in TestFns \cup {NULL_FN}, mallocOk \in BOOLEAN :
          \* the allocator is only reached with valid arguments
          /\ (hh = NULL \/ fn = NULL_FN) => mallocOk
          /\ closer_add(hh, fn, mallocOk)
          /\ trace' = trace \o AddEvents(hh, fn, mallocOk)
    /\ nops' = nops + 1
    /\ UNCHANGED <<pc, stack, h, item, s_closer, appvars>>
    /\ UNCHANGED taskvars

ClientClose ==
    /\ pc = "idle"
    /\ nops < MaxOps
    /\ \E hh \in Handles : Call("closer_close", hh, "idle")
    /\ nops' = nops + 1
    /\ UNCHANGED <<item, s_closer, closer, items, fault, trace, appvars>>
    /\ UNCHANGED taskvars

ClientDestroy ==
    /\ pc = "idle"
    /\ nops < MaxOps
    /\ \E hh \in Handles : Call("closer_destroy", hh, "idle")
    /\ nops' = nops + 1
    /\ UNCHANGED <<item, s_closer, closer, items, fault, trace, appvars>>
    /\ UNCHANGED taskvars

InitCommon ==
    /\ stack = <<>>
    /\ h = NULL
    /\ item = NULL
    /\ s_closer = NULL
    /\ closer = [alloc |-> FALSE, top |-> NULL]
    /\ items = [a \in ItemAddrs |-> FreeItem]
    /\ fault = FALSE
    /\ trace = <<>>
    /\ nops = 0
    /\ step = 1
    /\ acquired = {}
    /\ s_sta_netif = NULL
    /\ xTaskToNotify = NULL
    /\ handler_registered = FALSE
    /\ notified = FALSE
    /\ err = "ESP_OK"
    /\ evpc = "idle"
    /\ ev_netif = NULL
    /\ to_notify = NULL
    /\ nevents = 0
    /\ uris = {}
    /\ led = 0
    /\ nreq = 0

InitReg == pc = "idle" /\ InitCommon

NextReg ==
    \/ ClientCreate
    \/ ClientAdd
    \/ ClientClose
    \/ ClientDestroy
    \/ closer_close_entry
    \/ closer_close_iter
    \/ closer_close_exit
    \/ closer_destroy_entry
    \/ closer_destroy_free

SpecReg == InitReg /\ [][NextReg]_vars

\* closer_close runs synchronously on the calling thread and the cleanup
\* actions return: a close that has begun keeps taking its steps.
CloseSteps == closer_close_entry \/ closer_close_iter \/ closer_close_exit

FairSpecReg == SpecReg /\ WF_vars(CloseSteps)

\* ------------------------------------------------- the staged initializer
\* The fallible calls of app_logic in program order, with the function
\* that makes the call, the resource a successful call acquires and the
\* cleanup action the DEFER right after it registers (NULL_FN: no DEFER).
St(f, c, r, d) == [in |-> f, call |-> c, res |-> r, defer |-> d]

Steps == <<
    St("app_logic", "make_etag", "none", NULL_FN),
    St("app_logic", "gpio_init", "none", NULL_FN),
    St("app_logic", "gpio_set_level", "none", NULL_FN),
    St("app_logic", "nvs_init", "none", NULL_FN),
    St("wifi_init", "esp_netif_init", "netif", "esp_netif_deinit"),
    St("wifi_init", "esp_event_loop_create_default", "event_loop",
       "esp_event_loop_delete_default"),
    St("wifi_init", "esp_wifi_init", "wifi", "esp_wifi_deinit"),
    St("wifi_init", "esp_netif_create_wifi", "sta_netif", "sta_netif_destroy"),
    St("wifi_init", "esp_wifi_set_default_wifi_sta_handlers", "sta_handlers",
       "delete_default_wifi_driver_and_handlers"),
    St("wifi_init", "esp_wifi_set_storage", "none", NULL_FN),
    St("wifi_init", "esp_wifi_set_mode", "none", NULL_FN),
    St("wifi_init", "esp_wifi_start", "wifi_started", "esp_wifi_stop"),
    St("wifi_init", "esp_wifi_get_max_tx_power", "none", NULL_FN),
    St("wifi_connect", "esp_wifi_set_config", "none", NULL_FN),
    St("wifi_connect", "esp_event_handler_register", "none", NULL_FN),
    St("wifi_connect", "esp_wifi_connect", "none", NULL_FN),
    St("wifi_connect", "xTaskNotifyWait", "none", NULL_FN),
    St("mdns_start", "mdns_init", "mdns", "mdns_free"),
    St("mdns_start", "mdns_hostname_set", "none", NULL_FN),
    St("mdns_start", "mdns_instance_name_set", "none", NULL_FN),
    St("mdns_start", "mdns_service_add", "none", NULL_FN),
    St("start_webserver", "httpd_start", "webserver", "stop_webserver"),
    St("start_webserver", "httpd_register_uri_handler", "none", NULL_FN),
    St("start_webserver", "httpd_register_uri_handler", "none", NULL_FN),
    St("start_webserver", "httpd_register_uri_handler", "none", NULL_FN),
    St("start_webserver", "httpd_register_uri_handler", "none", NULL_FN) >>

\* The address esp_netif_create_wifi returns on success.
StaNetif == 200

\* app_main: ESP_ERROR_CHECK(closer_create(&s_closer)) aborts on failure.
app_main_create ==
    /\ pc = "app_main"
    /\ \E callocOk \in BOOLEAN :
          /\ closer_create(s_closer_addr, callocOk)
          /\ Log(CreateEvent(s_closer_addr, callocOk))
          /\ pc' = IF callocOk THEN "app_logic" ELSE "abort"
    /\ UNCHANGED <<stack, h, item, items, fault, nops, appvars>>
    /\ UNCHANGED taskvars

\* The URIs start_webserver registers handlers for, in program order.
Uris == <<"/", "/index.html", "/api/led/on", "/api/led/off">>

FirstUriStep ==
    CHOOSE i \in DOMAIN Steps :
        /\ Steps[i].call = "httpd_register_uri_handler"
        /\ \A k \in 1..(i - 1) : Steps[k].call # "httpd_register_uri_handler"

UriOf(i) == Uris[i - FirstUriStep + 1]

\* The handle of the task that runs app_main.
MainTask == 400
\* An interface other than the one esp_netif_create_wifi returned.
OtherNetif == 201

StepEvent(ret) == Ev("step", Steps[step].call, step, ret)

\* app_logic_call with ESP_LOG_ON_ERROR (err.h) in place of
\* ESP_RETURN_ON_ERROR: a failure is logged and the function goes on.
app_logic_call_logs_on_error ==
    /\ pc = "app_logic"
    /\ step <= Len(Steps)
    /\ Steps[step].in # "wifi_connect"
    /\ \E ok \in BOOLEAN :
          /\ Log(StepEvent(IF ok THEN "ESP_OK" ELSE "ESP_FAIL"))
          /\ IF ok
             THEN /\ acquired' = acquired \cup ({Steps[step].res} \ {"none"})
                  /\ s_sta_netif' = IF Steps[step].call = "esp_netif_create_wifi"
                                    THEN StaNetif ELSE s_sta_netif
                  /\ uris' = IF Steps[step].call = "httpd_register_uri_handler"
                             THEN uris \cup {UriOf(step)} ELSE uris
                  /\ led' = IF Steps[step].call = "gpio_set_level"
                            THEN 1 ELSE led
             ELSE UNCHANGED <<acquired, s_sta_netif, uris, led>>
          /\ IF Steps[step].defer # NULL_FN
             THEN pc' = "defer" /\ UNCHANGED step
             ELSE pc' = "app_logic" /\ step' = step + 1
    /\ UNCHANGED <<stack, h, item, s_closer, closer, items, fault, nops,
                   wifivars, evvars, nreq>>

\* One fallible call of app_logic (ESP_RETURN_ON_ERROR): on failure
\* app_logic returns the error; on success the resource is held and the
\* DEFER that follows, if any, comes next.  The calls of wifi_connect have
\* their own actions below.
app_logic_call ==
    /\ pc = "app_logic"
    /\ step <= Len(Steps)
    /\ Steps[step].in # "wifi_connect"
    /\ \E ok \in BOOLEAN :
          /\ Log(StepEvent(IF ok THEN "ESP_OK" ELSE "ESP_FAIL"))
          /\ IF ok
             THEN /\ acquired' = acquired \cup ({Steps[step].res} \ {"none"})
                  /\ s_sta_netif' = IF Steps[step].call = "esp_netif_create_wifi"
                                    THEN StaNetif ELSE s_sta_netif
                  /\ uris' = IF Steps[step].call = "httpd_register_uri_handler"
                             THEN uris \cup {UriOf(step)} ELSE uris
                  /\ led' = IF Steps[step].call = "gpio_set_level"
                            THEN 1 ELSE led
                  /\ IF Steps[step].defer # NULL_FN
                     THEN pc' = "defer" /\ UNCHANGED step
                     ELSE pc' = "app_logic" /\ step' = step + 1
             ELSE /\ pc' = "app_failed"
                  /\ UNCHANGED <<step, acquired, s_sta_netif, uris, led>>
    /\ UNCHANGED <<stack, h, item, s_closer, closer, items, fault, nops,
                   wifivars, evvars, nreq>>

\* ------------------------------------------------------------ wifi_connect
WifiStep(name) ==
    /\ pc = "app_logic"
    /\ step <= Len(Steps)
    /\ Steps[step].in = "wifi_connect"
    /\ Steps[step].call = name

WifiReturn(ret) == Ev("return", "wifi_connect", NULL, ret)

WifiFrame == UNCHANGED <<stack, h, item, s_closer, closer, items, fault, nops,
                         acquired, s_sta_netif, evvars, httpvars>>

\* ESP_RETURN_ON_ERROR(esp_wifi_set_config(...)); then the atomic store
\* xTaskToNotify = xTaskGetCurrentTaskHandle().
wifi_connect_set_config ==
    /\ WifiStep("esp_wifi_set_config")
    /\ \E ok \in BOOLEAN :
          IF ok
          THEN /\ Log(StepEvent("ESP_OK"))
               /\ xTaskToNotify' = MainTask
               /\ step' = step + 1
               /\ UNCHANGED pc
          ELSE /\ trace' = trace \o <<StepEvent("ESP_FAIL"), WifiReturn("ESP_FAIL")>>
               /\ pc' = "app_failed"
               /\ UNCHANGED <<xTaskToNotify, step>>
    /\ UNCHANGED <<handler_registered, notified, err>>
    /\ WifiFrame

\* ESP_RETURN_ON_ERROR(esp_event_handler_register(IP_EVENT,
\* IP_EVENT_STA_GOT_IP, &handler_on_sta_got_ip, NULL)): on failure the
\* function returns at once, not through the cleanup label.
wifi_connect_register ==
    /\ WifiStep("esp_event_handler_register")
    /\ \E ok \in BOOLEAN :
          IF ok
          THEN /\ Log(StepEvent("ESP_OK"))
               /\ handler_registered' = TRUE
               /\ step' = step + 1
               /\ UNCHANGED pc
          ELSE /\ trace' = trace \o <<StepEvent("ESP_FAIL"), WifiReturn("ESP_FAIL")>>
               /\ pc' = "app_failed"
               /\ UNCHANGED <<handler_registered, step>>
    /\ UNCHANGED <<xTaskToNotify, notified, err>>
    /\ WifiFrame

\* err = esp_wifi_connect(); if (err != ESP_OK) goto cleanup;
wifi_connect_connect ==
    /\ WifiStep("esp_wifi_connect")
    /\ \E ok \in BOOLEAN :
          IF ok
          THEN /\ Log(StepEvent("ESP_OK"))
               /\ err' = "ESP_OK"
               /\ step' = step + 1
               /\ UNCHANGED pc
          ELSE /\ Log(StepEvent("ESP_FAIL"))
               /\ err' = "ESP_FAIL"
               /\ pc' = "wifi_cleanup"
               /\ UNCHANGED step
    /\ UNCHANGED <<xTaskToNotify, handler_registered, notified>>
    /\ WifiFrame

\* xTaskNotifyWait(pdFALSE, ULONG_MAX, NULL, WAIT_STA_GOT_IP_MAX): returns
\* pdPASS when a notification is pending (and consumes it); the timeout
\* can expire at any moment at which none is pending.
wifi_connect_wait ==
    /\ WifiStep("xTaskNotifyWait")
    /\ IF notified
       THEN /\ Log(StepEvent("ESP_OK"))
            /\ notified' = FALSE
            /\ err' = "ESP_OK"
            /\ step' = step + 1
       ELSE /\ Log(StepEvent("ESP_ERR_TIMEOUT"))
            /\ err' = "ESP_ERR_TIMEOUT"
            /\ UNCHANGED <<notified, step>>
    /\ pc' = "wifi_cleanup"
    /\ UNCHANGED <<xTaskToNotify, handler_registered>>
    /\ WifiFrame

\* cleanup: esp_event_handler_unregister(IP_EVENT, IP_EVENT_STA_GOT_IP,
\* &handler_on_sta_got_ip);
wifi_connect_unregister ==
    /\ pc = "wifi_cleanup"
    /\ handler_registered' = FALSE
    /\ pc' = "wifi_clear"
    /\ UNCHANGED <<xTaskToNotify, notified, err, step, trace>>
    /\ WifiFrame

\* The atomic store xTaskToNotify = NULL; return err.
wifi_connect_clear ==
    /\ pc = "wifi_clear"
    /\ xTaskToNotify' = NULL
    /\ Log(WifiReturn(err))
    /\ pc' = IF err = "ESP_OK" THEN "app_logic" ELSE "app_failed"
    /\ UNCHANGED <<handler_registered, notified, err, step>>
    /\ WifiFrame

\* ---------------------------------------------------------- the event task
EventFrame == UNCHANGED <<pc, stack, h, item, s_closer, closer, items, fault,
                          trace, nops, step, acquired, s_sta_netif, httpvars>>

\* The event loop dispatches an IP_EVENT_STA_GOT_IP, for the station
\* interface or for another one, to the registered handler.
ip_event ==
    /\ evpc = "idle"
    /\ handler_registered
    /\ nevents < MaxEvents
    /\ \E n \in {StaNetif, OtherNetif} : ev_netif' = n
    /\ evpc' = "handler"
    /\ nevents' = nevents + 1
    /\ UNCHANGED <<to_notify, wifivars>>
    /\ EventFrame

\* handler_on_sta_got_ip without the test of event->esp_netif: an event
\* for any interface goes on to notify.
handler_on_sta_got_ip_check_any_netif ==
    /\ evpc = "handler"
    /\ evpc' = "load"
    /\ UNCHANGED <<ev_netif, to_notify, nevents, wifivars>>
    /\ EventFrame

\* if (event->esp_netif != s_sta_netif) { warn; return; }
handler_on_sta_got_ip_check ==
    /\ evpc = "handler"
    /\ evpc' = IF ev_netif # s_sta_netif THEN "idle" ELSE "load"
    /\ UNCHANGED <<ev_netif, to_notify, nevents, wifivars>>
    /\ EventFrame

\* to_notify = __atomic_load_n(&xTaskToNotify); if (to_notify) ...
handler_on_sta_got_ip_load ==
    /\ evpc = "load"
    /\ to_notify' = xTaskToNotify
    /\ evpc' = IF xTaskToNotify # NULL THEN "notify" ELSE "idle"
    /\ UNCHANGED <<ev_netif, nevents, wifivars>>
    /\ EventFrame

\* handler_on_sta_got_ip that also registers a cleanup action on s_closer
\* from the event task.
handler_on_sta_got_ip_notify_defers ==
    /\ evpc = "notify"
    /\ notified' = TRUE
    /\ evpc' = "idle"
    /\ closer_add(s_closer, "esp_wifi_disconnect", TRUE)
    /\ trace' = trace \o AddEvents(s_closer, "esp_wifi_disconnect", TRUE)
    /\ UNCHANGED <<ev_netif, to_notify, nevents, xTaskToNotify,
                   handler_registered, err>>
    /\ UNCHANGED <<pc, stack, h, item, s_closer, nops, step, acquired,
                   s_sta_netif, httpvars>>

\* xTaskNotify(to_notify, 0, eSetValueWithOverwrite) (or its FromISR
\* form): the notification becomes pending for the task.
handler_on_sta_got_ip_notify ==
    /\ evpc = "notify"
    /\ notified' = TRUE
    /\ evpc' = "idle"
    /\ UNCHANGED <<ev_netif, to_notify, nevents, xTaskToNotify,
                   handler_registered, err>>
    /\ EventFrame

\* ----------------------------------------------------- the HTTP server task
\* A request for a URI with a registered handler, while the server runs:
\* the LED handlers call gpio_set_level(LED_PIN, level), the other two
\* only send a response.
http_request ==
    /\ "webserver" \in acquired
    /\ nreq < MaxRequests
    /\ \E uri \in uris :
          led' = CASE uri = "/api/led/on" -> 0
                   [] uri = "/api/led/off" -> 1
                   [] OTHER -> led
    /\ nreq' = nreq + 1
    /\ UNCHANGED <<pc, stack, h, item, s_closer, closer, items, fault, trace,
                   nops, step, acquired, s_sta_netif, uris, wifivars, evvars>>

\* DEFER(fn): CLOSER_DEFER calls closer_add(s_closer, fn) and drops the
\* returned code.
DEFER ==
    /\ pc = "defer"
    /\ \E mallocOk \in BOOLEAN :
          /\ closer_add(s_closer, Steps[step].defer, mallocOk)
          /\ trace' = trace \o AddEvents(s_closer, Steps[step].defer, mallocOk)
    /\ pc' = "app_logic"
    /\ step' = step + 1
    /\ UNCHANGED <<stack, h, item, s_closer, nops, acquired, s_sta_netif>>
    /\ UNCHANGED taskvars

\* app_logic returned ESP_OK: app_main returns, the registry is retained.
app_main_ok ==
    /\ pc = "app_logic"
    /\ step > Len(Steps)
    /\ pc' = "running"
    /\ UNCHANGED <<stack, h, item, s_closer, closer, items, fault, trace, nops,
                   appvars>>
    /\ UNCHANGED taskvars

\* app_logic returned an error: closer_close(s_closer);
app_main_close ==
    /\ pc = "app_failed"
    /\ Call("closer_close", s_closer, "app_destroy")
    /\ UNCHANGED <<item, s_closer, closer, items, fault, trace, nops, appvars>>
    /\ UNCHANGED taskvars

\* closer_destroy(s_closer); then app_main returns.
app_main_destroy ==
    /\ pc = "app_destroy"
    /\ Call("closer_destroy", s_closer, "app_exit")
    /\ UNCHANGED <<item, s_closer, closer, items, fault, trace, nops, appvars>>
    /\ UNCHANGED taskvars

Init == pc = "app_main" /\ InitCommon

Next ==
    \/ app_main_create
    \/ app_logic_call
    \/ wifi_connect_set_config
    \/ wifi_connect_register
    \/ wifi_connect_connect
    \/ wifi_connect_wait
    \/ wifi_connect_unregister
    \/ wifi_connect_clear
    \/ ip_event
    \/ handler_on_sta_got_ip_check
    \/ handler_on_sta_got_ip_load
    \/ handler_on_sta_got_ip_notify
    \/ http_request
    \/ DEFER
    \/ app_main_ok
    \/ app_main_close
    \/ app_main_destroy
    \/ closer_close_entry
    \/ closer_close_iter
    \/ closer_close_exit
    \/ closer_destroy_entry
    \/ closer_destroy_free

Spec == Init /\ [][Next]_vars

\* ------------------------------------------------ reading the event trace
Reverse(s) == [i \in 1..Len(s) |-> s[Len(s) + 1 - i]]

Max(S) == CHOOSE x \in S : \A y \in S : y <= x

Last(s) == s[Len(s)]

\* The fn fields of the events of kind e with return code r at the
\* positions strictly between lo and hi, in trace order.
RECURSIVE FnsBetween(_, _, _, _)
FnsBetween(e, r, lo, hi) ==
    IF lo + 1 >= hi THEN <<>>
    ELSE IF trace[hi - 1].ev = e /\ trace[hi - 1].ret = r
         THEN Append(FnsBetween(e, r, lo, hi - 1), trace[hi - 1].fn)
         ELSE FnsBetween(e, r, lo, hi - 1)

\* Actions invoked, and registrations accepted, between two positions.
Calls(lo, hi) == FnsBetween("call", "void", lo, hi)
OkAdds(lo, hi) == FnsBetween("add", "ESP_OK", lo, hi)
NoMemAdds(lo, hi) == FnsBetween("add", "ESP_ERR_NO_MEM", lo, hi)

\* Number of closer_item_t blocks freed between two positions.
ItemFrees(lo, hi) ==
    Cardinality({k \in (lo + 1)..(hi - 1) :
                    trace[k].ev = "free" /\ trace[k].addr \in ItemAddrs})

\* Positions where a closer_close on a valid handle returned.
ClosedAt == {j \in DOMAIN trace : trace[j].ev = "closed"}

\* Position where the close that returned at j began.
CloseStart(j) ==
    Max({i \in 1..(j - 1) : trace[i].ev = "close" /\ trace[i].addr # NULL})

\* Position of the event that last emptied the registry before position i:
\* the return of the previous close, or the creation.
Boundary(i) ==
    Max({k \in 1..(i - 1) :
            \/ trace[k].ev = "closed"
            \/ trace[k].ev = "create" /\ trace[k].ret = "ESP_OK"})

\* Positions where a closer_destroy on a valid handle freed the registry.
DestroyedAt == {j \in DOMAIN trace :
                   trace[j].ev = "free" /\ trace[j].addr = CloserAddr}

DestroyStart(j) ==
    Max({i \in 1..(j - 1) : trace[i].ev = "destroy" /\ trace[i].addr # NULL})

\* The step made by a call of closer_add that returned r.
AddReturned(r) ==
    /\ Len(trace') > Len(trace)
    /\ Last(trace').ev = "add"
    /\ Last(trace').ret = r

\* -------------------------------------------------------------- claims
\* C1: N successful closer_add calls on a new registry followed by one
\* closer_close: the close invokes exactly the N actions, each once, last
\* registered first, and frees exactly N nodes.
C1_CloseInvokesReverseOrder ==
    \A j \in ClosedAt :
        trace[Boundary(CloseStart(j))].ev = "create" =>
            /\ Calls(CloseStart(j), j)
                  = Reverse(OkAdds(Boundary(CloseStart(j)), CloseStart(j)))
            /\ ItemFrees(CloseStart(j), j)
                  = Len(OkAdds(Boundary(CloseStart(j)), CloseStart(j)))

\* A close of three actions registered A, B, D has just returned.
C1_Witness ==
    /\ trace # <<>>
    /\ Last(trace).ev = "closed"
    /\ trace[Boundary(CloseStart(Len(trace)))].ev = "create"
    /\ OkAdds(Boundary(CloseStart(Len(trace))), CloseStart(Len(trace)))
          = <<"A", "B", "D">>
    /\ Calls(CloseStart(Len(trace)), Len(trace)) = <<"D", "B", "A">>

\* C5: the registry is reusable: a close that follows an earlier close
\* invokes exactly the actions registered since that earlier close, last
\* registered first, and over the whole run no more actions are invoked
\* than were registered.
C5_ReusableAfterClose ==
    /\ \A j \in ClosedAt :
          trace[Boundary(CloseStart(j))].ev = "closed" =>
              Calls(CloseStart(j), j)
                 = Reverse(OkAdds(Boundary(CloseStart(j)), CloseStart(j)))
    /\ Len(Calls(0, Len(trace) + 1)) <= Len(OkAdds(0, Len(trace) + 1))

\* register A; close; register D; close: the second close invoked D only.
C5_Witness ==
    /\ trace # <<>>
    /\ Last(trace).ev = "closed"
    /\ Calls(0, Len(trace) + 1) = <<"A", "D">>
    /\ Calls(CloseStart(Len(trace)), Len(trace)) = <<"D">>
    /\ trace[Boundary(CloseStart(Len(trace)))].ev = "closed"

\* C6: closer_close is idempotent: a close with nothing registered since
\* the registry was last emptied (in particular the second of two closes
\* in a row) invokes no action and frees no node, and every close leaves
\* the registry empty.
C6_CloseIdempotent ==
    \A j \in ClosedAt :
        /\ OkAdds(Boundary(CloseStart(j)), CloseStart(j)) = <<>> =>
              /\ Calls(CloseStart(j), j) = <<>>
              /\ ItemFrees(CloseStart(j), j) = 0
        /\ j = Len(trace) =>
              /\ closer.top = NULL
              /\ Pending = <<>>
              /\ AllocatedItems = {}

\* Two closes in a row have returned, the first of which invoked actions.
C6_Witness ==
    /\ Len(trace) >= 4
    /\ Last(trace).ev = "closed"
    /\ trace[Len(trace) - 1].ev = "close"
    /\ trace[Len(trace) - 2].ev = "closed"
    /\ Len(Calls(CloseStart(Len(trace) - 2), Len(trace) - 2)) >= 2
    /\ pc = "idle"

\* C7: a closer_add that returns ESP_ERR_NO_MEM leaves the list and the
\* heap exactly as they were, and a close after it invokes precisely the
\* accepted actions in reverse order.
C7_NoMemLeavesPending ==
    /\ [][AddReturned("ESP_ERR_NO_MEM") =>
             /\ Pending' = Pending
             /\ items' = items
             /\ closer' = closer]_vars
    /\ [](\A j \in ClosedAt :
             NoMemAdds(Boundary(CloseStart(j)), CloseStart(j)) # <<>> =>
                 Calls(CloseStart(j), j)
                    = Reverse(OkAdds(Boundary(CloseStart(j)), CloseStart(j))))

\* A and B registered, the registration of D refused, and the close that
\* followed invoked B then A.
C7_Witness ==
    /\ trace # <<>>
    /\ Last(trace).ev = "closed"
    /\ OkAdds(Boundary(CloseStart(Len(trace))), CloseStart(Len(trace)))
          = <<"A", "B">>
    /\ NoMemAdds(Boundary(CloseStart(Len(trace))), CloseStart(Len(trace)))
          = <<"D">>
    /\ trace[CloseStart(Len(trace)) - 1].ev = "add"
    /\ trace[CloseStart(Len(trace)) - 1].ret = "ESP_ERR_NO_MEM"
    /\ Calls(CloseStart(Len(trace)), Len(trace)) = <<"B", "A">>

\* C8: closer_add with a NULL handle or a NULL action returns
\* ESP_ERR_INVALID_ARG, allocates nothing and leaves the list unchanged.
C8_AddInvalidArg ==
    [][(/\ Len(trace') > Len(trace)
        /\ Last(trace').ev = "add"
        /\ (Last(trace').addr = NULL \/ Last(trace').fn = NULL_FN)) =>
           /\ Last(trace').ret = "ESP_ERR_INVALID_ARG"
           /\ items' = items
           /\ closer' = closer
           /\ Pending' = Pending]_vars

\* A NULL action has just been refused by a registry holding two actions.
C8_Witness ==
    /\ trace # <<>>
    /\ Last(trace).ev = "add"
    /\ Last(trace).fn = NULL_FN
    /\ Last(trace).addr = CloserAddr
    /\ Last(trace).ret = "ESP_ERR_INVALID_ARG"
    /\ Len(Pending) = 2

\* C9: closer_destroy on a valid registry invokes every pending action
\* once, most recent first, frees every node, and then frees the registry:
\* when it returns nothing remains allocated.
C9_DestroyClosesThenFrees ==
    \A j \in DestroyedAt :
        /\ Calls(DestroyStart(j), j)
              = Reverse(OkAdds(Boundary(DestroyStart(j)), DestroyStart(j)))
        /\ ItemFrees(DestroyStart(j), j)
              = Len(OkAdds(Boundary(DestroyStart(j)), DestroyStart(j)))
        /\ \E k \in (DestroyStart(j) + 1)..(j - 1) : trace[k].ev = "closed"
        /\ j = Len(trace) =>
              /\ AllocatedItems = {}
              /\ ~closer.alloc

\* A destroy of a registry holding A and B has returned.
C9_Witness ==
    /\ trace # <<>>
    /\ Last(trace).ev = "free"
    /\ Last(trace).addr = CloserAddr
    /\ Calls(DestroyStart(Len(trace)), Len(trace)) = <<"B", "A">>
    /\ pc = "idle"

\* C10: closer_destroy(NULL) returns at once: it invokes no action, frees
\* nothing, touches no memory and does not fault.
C10_DestroyNullNoOp ==
    [][(pc = "closer_destroy" /\ h = NULL) =>
           /\ pc' = Head(stack)
           /\ trace' = Append(trace, Ev("destroy", NULL_FN, NULL, "void"))
           /\ UNCHANGED <<item, s_closer, closer, items, fault, acquired,
                          s_sta_netif>>]_vars

\* closer_destroy(NULL) has returned while two actions are pending.
C10_Witness ==
    /\ trace # <<>>
    /\ Last(trace).ev = "destroy"
    /\ Last(trace).addr = NULL
    /\ pc = "idle"
    /\ Len(Pending) = 2
    /\ Calls(0, Len(trace) + 1) = <<>>

\* ------------------------------------- claims on the staged initializer
\* Resources in the order the steps acquired them, and in the order the
\* invoked cleanup actions released them.
RECURSIVE AcquiredSeq(_)
AcquiredSeq(n) ==
    IF n = 0 THEN <<>>
    ELSE IF /\ trace[n].ev = "step"
            /\ trace[n].ret = "ESP_OK"
            /\ Steps[trace[n].addr].res # "none"
         THEN Append(AcquiredSeq(n - 1), Steps[trace[n].addr].res)
         ELSE AcquiredSeq(n - 1)

RECURSIVE ReleasedSeq(_)
ReleasedSeq(n) ==
    IF n = 0 THEN <<>>
    ELSE IF trace[n].ev = "call"
         THEN Append(ReleasedSeq(n - 1), ResourceOf(trace[n].fn))
         ELSE ReleasedSeq(n - 1)

\* C2: when app_main returns after a failed step, the close has released
\* every resource the earlier steps acquired, in the reverse of the order
\* of acquisition, and has invoked no other cleanup action.
C2_FailureReleasesAll ==
    pc = "app_exit" =>
        /\ acquired = {}
        /\ ReleasedSeq(Len(trace)) = Reverse(AcquiredSeq(Len(trace)))

\* C3: whenever the next fallible call of the staged initializer is about
\* to run, every resource held has its cleanup action in the pending
\* sequence of the registry.
C3_AcquiredImpliesRegistered ==
    pc = "app_logic" =>
        \A r \in acquired : \E i \in DOMAIN Pending : ResourceOf(Pending[i]) = r

\* C4: after a closer_add that returned an error inside a step, no later
\* step runs and the resource just acquired is no longer held.
C4_RegistrationFailureHandled ==
    \A i \in DOMAIN trace :
        (trace[i].ev = "add" /\ trace[i].ret # "ESP_OK") =>
            /\ \A k \in (i + 1)..Len(trace) : trace[k].ev # "step"
            /\ ResourceOf(trace[i].fn) \notin acquired

\* C11: closer_create either returns ESP_OK and stores in *out a new
\* registry with an empty pending sequence, or returns ESP_ERR_NO_MEM
\* (calloc failed) or ESP_ERR_INVALID_ARG (out is NULL) and then creates
\* nothing and leaves *out as it was; a close right after a successful
\* create invokes nothing.
C11_CreateEmptyOrError ==
    /\ [][(Len(trace') = Len(trace) + 1 /\ Last(trace').ev = "create") =>
             \/ /\ Last(trace').ret = "ESP_OK"
                /\ Last(trace').fn # NULL_FN
                /\ s_closer' = CloserAddr
                /\ closer' = [alloc |-> TRUE, top |-> NULL]
                /\ Pending' = <<>>
             \/ /\ Last(trace').ret = "ESP_ERR_NO_MEM"
                /\ Last(trace').fn # NULL_FN
                /\ UNCHANGED <<s_closer, closer, items>>
             \/ /\ Last(trace').ret = "ESP_ERR_INVALID_ARG"
                /\ Last(trace').fn = NULL_FN
                /\ UNCHANGED <<s_closer, closer, items>>]_vars
    /\ [](\A j \in ClosedAt :
             trace[CloseStart(j) - 1].ev = "create" =>
                 /\ Calls(CloseStart(j), j) = <<>>
                 /\ ItemFrees(CloseStart(j), j) = 0)

\* closer_create(NULL) was refused, closer_create(&s_closer) then
\* succeeded, and the close right after it has returned.
C11_Witness ==
    /\ Len(trace) = 4
    /\ trace[1].ev = "create" /\ trace[1].ret = "ESP_ERR_INVALID_ARG"
    /\ trace[2].ev = "create" /\ trace[2].ret = "ESP_OK"
    /\ trace[3].ev = "close"
    /\ trace[4].ev = "closed"
    /\ s_closer = CloserAddr
    /\ closer.alloc

\* Positions of the calls of the staged initializer that returned an error.
FailedSteps == {i \in DOMAIN trace : trace[i].ev = "step" /\ trace[i].ret # "ESP_OK"}

C13_SuccessRetainsRegistry ==
    pc = "running" =>
        /\ closer.alloc
        /\ s_closer = CloserAddr
        /\ \A k \in DOMAIN trace :
              trace[k].ev \notin {"call", "close", "closed", "destroy", "free"}
        /\ Pending = <<"stop_webserver", "mdns_free", "esp_wifi_stop",
                       "delete_default_wifi_driver_and_handlers",
                       "sta_netif_destroy", "esp_wifi_deinit",
                       "esp_event_loop_delete_default", "esp_netif_deinit">>

\* A closer_close on a valid handle has been entered.
CloseBegins == pc = "closer_close" /\ h # NULL

\* The close has returned: it invoked as many actions as were registered
\* since the registry was last emptied, nothing went wrong and nothing is
\* pending.
CloseEnded ==
    /\ pc \notin {"closer_close", "close_loop"}
    /\ trace # <<>>
    /\ Last(trace).ev = "closed"
    /\ Len(Calls(CloseStart(Len(trace)), Len(trace)))
          = Len(OkAdds(Boundary(CloseStart(Len(trace))),
                       CloseStart(Len(trace))))
    /\ Pending = <<>>
    /\ ~fault

\* One pass of the loop invokes the action of the node at hand and leaves
\* exactly the nodes behind it to visit.
CloseIterProgress ==
    (pc = "close_loop" /\ item # NULL /\ items' # items) =>
        /\ Chain(item', HeapSize) = Tail(Chain(item, HeapSize))
        /\ trace'[Len(trace) + 1] = Ev("call", items[item].fn, item, "void")
        /\ pc' = "close_loop"
        /\ ~fault'

\* C14: once closer_close begins on a registry with n pending actions it
\* terminates, having invoked all n actions without failing, and leaves an
\* empty pending sequence: every pass of the loop consumes exactly one node,
\* and a close that began always ends.
C14_NoPartialUnwind ==
    /\ [][CloseIterProgress]_vars
    /\ CloseBegins ~> CloseEnded

\* A close of three pending actions has returned.
C14_Witness ==
    /\ pc = "idle"
    /\ trace # <<>>
    /\ Last(trace).ev = "closed"
    /\ Calls(CloseStart(Len(trace)), Len(trace)) = <<"D", "B", "A">>
    /\ Pending = <<>>

\* The node at address a is allocated just before position k of the trace:
\* its last malloc or free before k is a malloc.
LiveBefore(a, k) ==
    \E m \in 1..(k - 1) :
        /\ trace[m].ev = "malloc"
        /\ trace[m].addr = a
        /\ \A j \in (m + 1)..(k - 1) :
              ~(trace[j].ev \in {"malloc", "free"} /\ trace[j].addr = a)

\* C15: during closer_close each node is freed right after its own action
\* was invoked and before the next one is, no node is used (action invoked,
\* next link read) after it was freed, and every node is freed exactly
\* once: a free always meets a live node and a returned close leaves no
\* node allocated.
C15_FreeInterleaved ==
    /\ ~fault
    /\ \A k \in DOMAIN trace :
          /\ trace[k].ev = "call" =>
                /\ LiveBefore(trace[k].addr, k)
                /\ k < Len(trace)
                /\ trace[k + 1] = Ev("free", NULL_FN, trace[k].addr, "void")
          /\ (trace[k].ev = "free" /\ trace[k].addr \in ItemAddrs) =>
                /\ LiveBefore(trace[k].addr, k)
                /\ k > 1
                /\ trace[k - 1].ev = "call"
                /\ trace[k - 1].addr = trace[k].addr
    /\ \A j \in ClosedAt :
          /\ ItemFrees(CloseStart(j), j)
                = Len(OkAdds(Boundary(CloseStart(j)), CloseStart(j)))
          /\ \A a \in ItemAddrs : ~LiveBefore(a, j)

\* A close has walked three nodes, freeing each between two invocations.
C15_Witness ==
    /\ pc = "idle"
    /\ \E j \in ClosedAt :
          /\ Len(Calls(CloseStart(j), j)) = 3
          /\ ItemFrees(CloseStart(j), j) = 3
          /\ trace[CloseStart(j) + 2].ev = "free"
          /\ trace[CloseStart(j) + 3].ev = "call"

\* The positions of the trace where the cleanup action fn was invoked.
CalledAt(fn) == {k \in DOMAIN trace : trace[k].ev = "call" /\ trace[k].fn = fn}

\* This step invokes the cleanup action fn.
Invokes(fn) ==
    \E k \in (Len(trace) + 1)..Len(trace') :
        trace'[k].ev = "call" /\ trace'[k].fn = fn

\* C16: in every unwind of the staged initializer
\* delete_default_wifi_driver_and_handlers, which dereferences s_sta_netif,
\* runs while the interface still exists: s_sta_netif is not NULL when it
\* is invoked and sta_netif_destroy has not been invoked before it.
C16_HandlersBeforeNetif ==
    [][Invokes("delete_default_wifi_driver_and_handlers") =>
          /\ s_sta_netif # NULL
          /\ "sta_netif" \in acquired
          /\ CalledAt("sta_netif_destroy") = {}
          /\ "sta_handlers" \notin acquired']_vars

\* An unwind has invoked both actions, the handlers' one first.
C16_Witness ==
    /\ pc = "app_exit"
    /\ s_sta_netif = NULL
    /\ \E i \in CalledAt("delete_default_wifi_driver_and_handlers") :
          \E j \in CalledAt("sta_netif_destroy") : i < j

\* The step is one of the event task or of the HTTP server task.
TaskStep == evvars' # evvars \/ nreq' # nreq

\* The step runs (part of) a registry operation: it changes the registry
\* or leaves a registry event in the trace.
RegistryStep ==
    \/ <<closer, items, s_closer>>' # <<closer, items, s_closer>>
    \/ \E k \in (Len(trace) + 1)..Len(trace') :
          trace'[k].ev \in {"create", "malloc", "add", "close", "call",
                            "free", "closed", "destroy"}

\* Where app_main and app_logic stand when they run a registry operation.
RegistryPcs == {"app_main", "defer", "closer_close", "close_loop",
                "closer_destroy", "destroy_free"}

\* C17: the registry is used single-threaded.  Every step of a registry
\* operation is a step of the app_main task; the event handler and the HTTP
\* handlers leave the registry and the operation in progress alone; a
\* cleanup action changes nothing of the registry; and the only operation
\* begun while another is in progress is the close inside closer_destroy.
C17_SingleThreaded ==
    /\ [][/\ TaskStep =>
                /\ UNCHANGED <<closer, items, s_closer, h, item, stack, pc>>
                /\ ~RegistryStep
          /\ RegistryStep => pc \in RegistryPcs
          /\ (\E k \in (Len(trace) + 1)..Len(trace') : trace'[k].ev = "call") =>
                /\ UNCHANGED <<closer, s_closer, h, stack, pc>>
                /\ \A a \in ItemAddrs \ {item} : items'[a] = items[a]
                /\ items'[item] = [items[item] EXCEPT !.alloc = FALSE]]_vars
    /\ [](/\ Len(stack) <= 2
          /\ Len(stack) = 2 => stack[1] = "destroy_free" /\ pc \in {"closer_close", "close_loop"}
          /\ pc \in {"closer_close", "close_loop", "closer_destroy", "destroy_free"}
                => Len(stack) >= 1)

\* The event handler has notified app_main, an HTTP request was served,
\* and closer_close is walking the list while the server still runs.
C17_Witness ==
    /\ pc = "close_loop"
    /\ item # NULL
    /\ nevents = 1
    /\ nreq = 1
    /\ "webserver" \in acquired

\* C18: whatever calls were made, failed ones included, no node of the
\* pending sequence holds a NULL action: no allocated node and no node the
\* loop of closer_close stands on has one, so every node the loop frees
\* had its action invoked just before (the skip is never taken).
C18_NoNullAction ==
    /\ \A a \in AllocatedItems : items[a].fn # NULL_FN
    /\ \A i \in DOMAIN Pending : Pending[i] # NULL_FN
    /\ (pc = "close_loop" /\ item # NULL) => items[item].fn # NULL_FN
    /\ \A k \in DOMAIN trace :
          (trace[k].ev = "free" /\ trace[k].addr \in ItemAddrs) =>
              /\ k > 1
              /\ trace[k - 1].ev = "call"
              /\ trace[k - 1].fn # NULL_FN

\* closer_add was called with a NULL action on a valid handle between two
\* accepted registrations, and closer_close now stands on a node.
C18_Witness ==
    /\ pc = "close_loop"
    /\ item # NULL
    /\ \E k \in DOMAIN trace :
          /\ trace[k].ev = "add"
          /\ trace[k].fn = NULL_FN
          /\ trace[k].addr # NULL
          /\ OkAdds(Boundary(k), k) # <<>>
          /\ OkAdds(k, Len(trace) + 1) # <<>>

\* Positions where a closer_close on a valid handle was entered.
CloseAt == {k \in DOMAIN trace : trace[k].ev = "close" /\ trace[k].addr # NULL}

\* C19: on the failure path of app_main, closer_close(s_closer) followed by
\* closer_destroy(s_closer), which closes again: when app_main is done
\* every registered action was invoked exactly once (all of them by the
\* first close, none by the close inside closer_destroy), every node was
\* freed exactly once and so was the registry, with no use of freed memory.
C19_CloseThenDestroyOnce ==
    /\ \A k \in DOMAIN trace :
          (trace[k].ev = "free" /\ trace[k].addr \in ItemAddrs) =>
              LiveBefore(trace[k].addr, k)
    /\ pc = "app_exit" =>
          /\ Calls(0, Len(trace) + 1) = Reverse(OkAdds(0, Len(trace) + 1))
          /\ ItemFrees(0, Len(trace) + 1) = Len(OkAdds(0, Len(trace) + 1))
          /\ AllocatedItems = {}
          /\ Cardinality(CloseAt) = 2
          /\ Calls(Max(CloseAt), Len(trace) + 1) = <<>>
          /\ ItemFrees(Max(CloseAt), Len(trace) + 1) = 0
          /\ Cardinality(DestroyedAt) = 1
          /\ ~closer.alloc
          /\ ~fault

\* app_main is done after a failure of mdns_start: the first close invoked
\* seven actions, the close inside closer_destroy found none.
C19_Witness ==
    /\ pc = "app_exit"
    /\ Cardinality(CloseAt) = 2
    /\ Len(Calls(0, Max(CloseAt))) = 7
    /\ Last(trace) = Ev("free", NULL_FN, CloserAddr, "void")

\* C20: whenever wifi_connect has just returned, by whichever path, the
\* temporary state it set up is undone: xTaskToNotify is NULL and
\* handler_on_sta_got_ip is not registered.
C20_WifiConnectUndoes ==
    (trace # <<>> /\ Last(trace).ev = "return" /\ Last(trace).fn = "wifi_connect")
        => /\ xTaskToNotify = NULL
           /\ ~handler_registered

\* Positions where wifi_connect returned r.
WifiReturnedAt(r) ==
    {k \in DOMAIN trace : trace[k] = WifiReturn(r)}

\* The step is the return of xTaskNotifyWait in wifi_connect.
WaitReturns == WifiStep("xTaskNotifyWait") /\ pc' = "wifi_cleanup"

\* C21: whatever the interleaving of app_main with the event task,
\* wifi_connect returns ESP_OK only after xTaskNotifyWait found a
\* notification, and a notification is only ever made pending by
\* handler_on_sta_got_ip handling an event for the station interface with
\* a non-NULL xTaskToNotify loaded; with none pending the wait gives
\* ESP_ERR_TIMEOUT, wifi_connect returns it and no further step of the
\* initializer runs; an event for another interface, or one handled while
\* xTaskToNotify is NULL, leaves the task's notification state alone.
C21_WakeOnlyByStaEvent ==
    /\ [][/\ (notified' /\ ~notified) =>
                /\ evpc = "notify"
                /\ ev_netif = StaNetif
                /\ to_notify = MainTask
          /\ WaitReturns =>
                /\ notified => (err' = "ESP_OK" /\ ~notified')
                /\ ~notified => (err' = "ESP_ERR_TIMEOUT" /\ ~notified')
          /\ (evpc = "handler" /\ evpc' # evpc /\ ev_netif # s_sta_netif) =>
                (evpc' = "idle" /\ notified' = notified)
          /\ (evpc = "load" /\ evpc' # evpc /\ xTaskToNotify = NULL) =>
                (evpc' = "idle" /\ notified' = notified)]_vars
    /\ [](/\ \A k \in WifiReturnedAt("ESP_OK") :
                /\ k > 1
                /\ trace[k - 1].ev = "step"
                /\ trace[k - 1].fn = "xTaskNotifyWait"
                /\ trace[k - 1].ret = "ESP_OK"
                /\ nevents >= 1
          /\ \A k \in DOMAIN trace :
                (trace[k].ev = "step" /\ trace[k].fn = "xTaskNotifyWait"
                   /\ trace[k].ret = "ESP_ERR_TIMEOUT") =>
                    /\ k < Len(trace) => trace[k + 1] = WifiReturn("ESP_ERR_TIMEOUT")
                    /\ \A m \in (k + 1)..Len(trace) : trace[m].ev # "step"
                    /\ pc \notin {"app_logic", "defer", "running"})

\* wifi_connect has returned ESP_OK, woken by the handler of an event for
\* the station interface.
C21_Witness ==
    /\ trace # <<>>
    /\ Last(trace) = WifiReturn("ESP_OK")
    /\ nevents = 1
    /\ ev_netif = StaNetif
    /\ to_notify = MainTask
    /\ ~notified
    /\ xTaskToNotify = NULL

====
